---- MODULE Spec2Model ----
(***************************************************************************)
(* The stream scheduler of the SleighOS dashboard (App component) and the  *)
(* text source adapter (generateStatusBatch).                              *)
(*                                                                         *)
(* React state (logs, buffer, isLoading, aiError, isRunning) holds the     *)
(* latest queued value.  The refs logsRef, bufferRef and isLoadingRef are  *)
(* copied from the state by passive effects, which run in a later task     *)
(* than the one that queued the update: the Render action.  Everything a   *)
(* callback does synchronously, and the microtasks it leaves behind, is    *)
(* one action.                                                             *)
(***************************************************************************)
EXTENDS Integers, Sequences, FiniteSets, TLC

VARIABLES
  mounted,       \* the mount effects have run
  apiKey,        \* process.env.API_KEY is a non-empty string
  logs,          \* useState<LogMessage[]>
  isRunning,     \* useState(true)
  buffer,        \* useState<string[]>
  isLoading,     \* useState(false)
  aiError,       \* useState(false)
  logsRef,       \* useRef, copied from logs by an effect
  bufferRef,     \* useRef, copied from buffer by an effect
  isLoadingRef,  \* useRef, copied from isLoading by an effect
  useGeminiNext, \* useRef(true)
  timeoutRef,    \* useRef: id of the timer set last, 0 for null
  timers,        \* ids of the setTimeout timers armed and not yet fired or cleared
  inflight,      \* number of fetchMoreLogs calls suspended at their await
  nextLine,      \* serial number of the next raw line produced by a source
  nextLogId,     \* serial number standing for the next Math.random() entry id
  srcHist,       \* sources of the last two fetch cycles started, oldest first
  lastOp,        \* the operation that produced the current state
  lastResult,    \* what generateStatusBatch returned to the cycle this operation completed
  idleLines,     \* the lines enqueued since the last stop, while not running
  raw,           \* a string handed to parseLogString or received as response.text
  out            \* what the function applied to raw returned

vars == <<mounted, apiKey, logs, isRunning, buffer, isLoading, aiError, logsRef,
          bufferRef, isLoadingRef, useGeminiNext, timeoutRef, timers, inflight,
          nextLine, nextLogId, srcHist, lastOp, lastResult, idleLines, raw, out>>

\* the variables of the scheduler, which the text functions leave alone
appVars == <<mounted, apiKey, logs, isRunning, buffer, isLoading, aiError, logsRef,
             bufferRef, isLoadingRef, useGeminiNext, timeoutRef, timers, inflight,
             nextLine, nextLogId, srcHist, lastOp, lastResult, idleLines>>

----------------------------------------------------------------------------
(* Program constants *)

MAX_LOGS == 50

\* the low-water mark of the prefetch test, currentBufferLen < 2
LOW_WATER == 2

\* the count fetchMoreLogs asks generateStatusBatch for
FETCH_COUNT == 1

(* Bounds of the model *)

\* raw lines the sources may produce in one behaviour
MaxLines == 2

\* the same without a credential, where mount alone produces six
MaxLinesNoKey == 8

\* entries ticks may append to the display log in one behaviour
MaxAppends == 4

\* fetchMoreLogs calls that may be suspended at once
MaxInflight == 3

\* strings in the JSON array of one live response
MaxBatch == 2

\* size of the seed corpus SEED_MESSAGES
SeedCount == 2

\* entries ticks may append in one behaviour of SpecLog
LogAppends == 52

\* words that follow the head of a raw line
MaxWords == 3

----------------------------------------------------------------------------
(* Helpers *)

Min(a, b) == IF a < b THEN a ELSE b

Range(s) == {s[i] : i \in 1..Len(s)}

\* Array.prototype.slice(-n)
LastN(s, n) == IF Len(s) <= n THEN s ELSE SubSeq(s, Len(s) - n + 1, Len(s))

\* a raw line: its serial number and where its text comes from
Line(n, txt) == [id |-> n, txt |-> txt]

\* k lines of the same origin, numbered from n
Lines(n, k, txt) == [i \in 1..k |-> Line(n + i - 1, txt)]

----------------------------------------------------------------------------
(* The text source adapter *)

\* What the generative service does with one request: a response whose text
\* holds a JSON array of n strings, a response with no text, a response whose
\* text does not parse, a failure whose serialisation carries "429" or
\* "RESOURCE_EXHAUSTED", any other failure.
Outcomes ==
  {[kind |-> "ok", n |-> k] : k \in 0..MaxBatch}
    \cup {[kind |-> k, n |-> 0] : k \in {"empty", "garbled", "ratelimit", "failure"}}

\* the outcome recorded for a call that never reached the service
NoCall == [kind |-> "nokey", n |-> 0]

\* Mutant: the rate-limit test is missing, a rate-limited request is handled
\* as any other failure.
generateStatusBatchNoFallback(key, o, count, n) ==
  IF ~key
    THEN [kind |-> "nokey",
          logs |-> <<Line(n, "keymissing"), Line(n + 1, "fluxdisc")>>, error |-> TRUE]
  ELSE IF o.kind = "empty"
    THEN [kind |-> o.kind, logs |-> <<>>, error |-> FALSE]
  ELSE IF o.kind = "ok"
    THEN [kind |-> o.kind, logs |-> Lines(n, o.n, "live"), error |-> FALSE]
  ELSE IF o.kind = "garbled"
    THEN [kind |-> o.kind, logs |-> <<Line(n, "parsewarn")>>, error |-> TRUE]
  ELSE [kind |-> o.kind, logs |-> <<Line(n, "interference")>>, error |-> TRUE]

\* Mutant: a parse failure yields no line and no degraded flag.
generateStatusBatchQuietParse(key, o, count, n) ==
  IF ~key
    THEN [kind |-> "nokey",
          logs |-> <<Line(n, "keymissing"), Line(n + 1, "fluxdisc")>>, error |-> TRUE]
  ELSE IF o.kind \in {"empty", "garbled"}
    THEN [kind |-> o.kind, logs |-> <<>>, error |-> FALSE]
  ELSE IF o.kind = "ok"
    THEN [kind |-> o.kind, logs |-> Lines(n, o.n, "live"), error |-> FALSE]
  ELSE IF o.kind = "ratelimit"
    THEN [kind |-> o.kind, logs |-> Lines(n, Min(count, SeedCount), "seed"), error |-> TRUE]
  ELSE [kind |-> o.kind, logs |-> <<Line(n, "interference")>>, error |-> TRUE]

\* Mutant: the credential test is missing; the request is made without a
\* credential and fails.
generateStatusBatchNoKeyTest(key, o, count, n) ==
  IF ~key
    THEN [kind |-> "nokey", logs |-> <<Line(n, "interference")>>, error |-> TRUE]
  ELSE IF o.kind = "empty"
    THEN [kind |-> o.kind, logs |-> <<>>, error |-> FALSE]
  ELSE IF o.kind = "ok"
    THEN [kind |-> o.kind, logs |-> Lines(n, o.n, "live"), error |-> FALSE]
  ELSE IF o.kind = "garbled"
    THEN [kind |-> o.kind, logs |-> <<Line(n, "parsewarn")>>, error |-> TRUE]
  ELSE IF o.kind = "ratelimit"
    THEN [kind |-> o.kind, logs |-> Lines(n, Min(count, SeedCount), "seed"), error |-> TRUE]
  ELSE [kind |-> o.kind, logs |-> <<Line(n, "interference")>>, error |-> TRUE]

\* generateStatusBatch(currentContext, count): key is the credential test,
\* o the service's outcome, n the serial number of the first line returned.
\* The context only feeds the prompt.  A failure is taken to be an error
\* object JSON.stringify serialises, a parsed response an array of strings.
generateStatusBatch(key, o, count, n) ==
  IF ~key
    THEN [kind |-> "nokey",
          logs |-> <<Line(n, "keymissing"), Line(n + 1, "fluxdisc")>>, error |-> TRUE]
  ELSE IF o.kind = "empty"
    THEN [kind |-> o.kind, logs |-> <<>>, error |-> FALSE]
  ELSE IF o.kind = "ok"
    THEN [kind |-> o.kind, logs |-> Lines(n, o.n, "live"), error |-> FALSE]
  ELSE IF o.kind = "garbled"
    THEN [kind |-> o.kind, logs |-> <<Line(n, "parsewarn")>>, error |-> TRUE]
  ELSE IF o.kind = "ratelimit"
    THEN [kind |-> o.kind, logs |-> Lines(n, Min(count, SeedCount), "seed"), error |-> TRUE]
  ELSE [kind |-> o.kind, logs |-> <<Line(n, "interference")>>, error |-> TRUE]

----------------------------------------------------------------------------
(* The scheduler.  The callbacks are written as functions of a record s of  *)
(* the values they read and write, so that one action can run them in the  *)
(* order the code does.                                                    *)

Cur ==
  [logs |-> logs, buffer |-> buffer, isLoading |-> isLoading, aiError |-> aiError,
   logsRef |-> logsRef, bufferRef |-> bufferRef, isLoadingRef |-> isLoadingRef,
   useGeminiNext |-> useGeminiNext, timeoutRef |-> timeoutRef, timers |-> timers,
   inflight |-> inflight, nextLine |-> nextLine, nextLogId |-> nextLogId,
   srcHist |-> srcHist, lastResult |-> lastResult]

Set(s) ==
  /\ logs' = s.logs
  /\ buffer' = s.buffer
  /\ isLoading' = s.isLoading
  /\ aiError' = s.aiError
  /\ logsRef' = s.logsRef
  /\ bufferRef' = s.bufferRef
  /\ isLoadingRef' = s.isLoadingRef
  /\ useGeminiNext' = s.useGeminiNext
  /\ timeoutRef' = s.timeoutRef
  /\ timers' = s.timers
  /\ inflight' = s.inflight
  /\ nextLine' = s.nextLine
  /\ nextLogId' = s.nextLogId
  /\ srcHist' = s.srcHist
  /\ lastResult' = s.lastResult

\* a fetch cycle starts on the given source
Started(s, src) == [s EXCEPT !.srcHist = LastN(Append(@, src), 2)]

\* Mutant: the seed turn reports the source as healthy.
fetchMoreLogsSeedClearsError(s) ==
  IF s.isLoadingRef THEN s
  ELSE IF s.useGeminiNext
    THEN [Started(s, "live") EXCEPT !.isLoading = TRUE, !.inflight = @ + 1]
  ELSE [Started(s, "seed") EXCEPT
          !.aiError = FALSE,
          !.buffer = Append(@, Line(s.nextLine, "seed")),
          !.nextLine = @ + 1,
          !.useGeminiNext = ~@,
          !.isLoading = FALSE]

\* fetchMoreLogs up to its await (live turn) or to its end (seed turn)
fetchMoreLogs(s) ==
  IF s.isLoadingRef THEN s
  ELSE IF s.useGeminiNext
    THEN [Started(s, "live") EXCEPT !.isLoading = TRUE, !.inflight = @ + 1]
  ELSE [Started(s, "seed") EXCEPT
          !.buffer = Append(@, Line(s.nextLine, "seed")),
          !.nextLine = @ + 1,
          !.useGeminiNext = ~@,
          !.isLoading = FALSE]

\* fetchMoreLogs after its await, r being what generateStatusBatch resolved to
fetchResume(s, r) ==
  [s EXCEPT !.aiError = r.error,
            !.buffer = @ \o r.logs,
            !.nextLine = @ + Len(r.logs),
            !.useGeminiNext = ~@,
            !.isLoading = FALSE,
            !.inflight = @ - 1,
            !.lastResult = r]

\* Mutant: slice(0, MAX_LOGS), which keeps the oldest entries.
appendLogKeepOldest(prev, newLog) ==
  SubSeq(Append(prev, newLog), 1, Min(Len(prev) + 1, MAX_LOGS))

\* setLogs(prev => [...prev, newLog].slice(-MAX_LOGS))
appendLog(prev, newLog) == LastN(Append(prev, newLog), MAX_LOGS)

\* setTimeout: a timer id that is not in use
newTimer(s) ==
  CHOOSE t \in 1..(Cardinality(s.timers) + 2) : t \notin s.timers /\ t # s.timeoutRef

\* Mutant: the empty-buffer branch returns after its fetch, before the timer
\* is armed.
processNextMessageNoRearm(s, running) ==
  IF ~running THEN s
  ELSE IF Len(s.bufferRef) = 0 THEN fetchMoreLogs(s)
  ELSE
    LET newBuffer == Tail(s.bufferRef)
        newLog == [id |-> s.nextLogId, raw |-> Head(s.bufferRef)]
        s1 == [s EXCEPT !.buffer = newBuffer,
                        !.logs = appendLog(@, newLog),
                        !.nextLogId = @ + 1]
        s2 == IF Len(newBuffer) < LOW_WATER /\ ~s1.isLoadingRef
                THEN fetchMoreLogs(s1)
                ELSE s1
        t == newTimer(s2)
    IN [s2 EXCEPT !.timeoutRef = t, !.timers = @ \cup {t}]

\* Mutant: the id setTimeout returns is not stored in timeoutRef.
processNextMessageForgetsTimer(s, running) ==
  IF ~running THEN s
  ELSE
    LET popped == Len(s.bufferRef) > 0
        newBuffer == Tail(s.bufferRef)
        newLog == [id |-> s.nextLogId, raw |-> Head(s.bufferRef)]
        s1 == IF popped
                THEN [s EXCEPT !.buffer = newBuffer,
                               !.logs = appendLog(@, newLog),
                               !.nextLogId = @ + 1]
                ELSE fetchMoreLogs(s)
        currentBufferLen == IF popped THEN Len(newBuffer) ELSE 0
        s2 == IF currentBufferLen < LOW_WATER /\ ~s1.isLoadingRef
                THEN fetchMoreLogs(s1)
                ELSE s1
        t == newTimer(s2)
    IN [s2 EXCEPT !.timers = @ \cup {t}]

\* processNextMessage, run by a closure whose isRunning is running
processNextMessage(s, running) ==
  IF ~running THEN s
  ELSE
    LET popped == Len(s.bufferRef) > 0
        newBuffer == Tail(s.bufferRef)
        newLog == [id |-> s.nextLogId, raw |-> Head(s.bufferRef)]
        s1 == IF popped
                THEN [s EXCEPT !.buffer = newBuffer,
                               !.logs = appendLog(@, newLog),
                               !.nextLogId = @ + 1]
                ELSE fetchMoreLogs(s)
        currentBufferLen == IF popped THEN Len(newBuffer) ELSE 0
        s2 == IF currentBufferLen < LOW_WATER /\ ~s1.isLoadingRef
                THEN fetchMoreLogs(s1)
                ELSE s1
        t == newTimer(s2)
    IN [s2 EXCEPT !.timeoutRef = t, !.timers = @ \cup {t}]

\* Mutant: the cleanup clears nothing.
cleanupKeepsTimer(s) == s

\* the effect's cleanup: clearTimeout(timeoutRef.current)
cleanup(s) == [s EXCEPT !.timers = @ \ {s.timeoutRef}]

\* The microtasks a callback leaves behind.  Without a credential
\* generateStatusBatch returns before any request, so every suspended
\* fetchMoreLogs resumes, in the order they were suspended, before any other
\* task runs.
RECURSIVE drain(_)
drain(s) ==
  IF apiKey \/ s.inflight = 0 THEN s
  ELSE drain(fetchResume(s, generateStatusBatch(FALSE, NoCall, FETCH_COUNT, s.nextLine)))

initialLogs ==
  <<[id |-> -3, raw |-> Line(-3, "init")],
    [id |-> -2, raw |-> Line(-2, "init")],
    [id |-> -1, raw |-> Line(-1, "init")]>>

\* lastResult when the operation completed no fetch cycle
NoResult == [kind |-> "none", logs |-> <<>>, error |-> FALSE]

\* out before a text function has been applied
NotApplied == [op |-> "none"]

\* the values a callback starts from
Entry == [Cur EXCEPT !.lastResult = NoResult]

----------------------------------------------------------------------------
(* Actions *)

\* the state after useState and useRef, before any effect has run
Init ==
  /\ mounted = FALSE
  /\ apiKey \in BOOLEAN
  /\ logs = <<>>
  /\ isRunning = TRUE
  /\ buffer = <<>>
  /\ isLoading = FALSE
  /\ aiError = FALSE
  /\ logsRef = <<>>
  /\ bufferRef = <<>>
  /\ isLoadingRef = FALSE
  /\ useGeminiNext = TRUE
  /\ timeoutRef = 0
  /\ timers = {}
  /\ inflight = 0
  /\ nextLine = 1
  /\ nextLogId = 1
  /\ srcHist = <<>>
  /\ lastOp = "init"
  /\ lastResult = NoResult
  /\ idleLines = {}
  /\ raw = <<>>
  /\ out = NotApplied

\* The behaviours explored: a callback that produces lines or suspends a
\* call runs only while the budget lasts, one that does neither always runs.
Budget(s) ==
  \/ nextLine <= (IF apiKey THEN MaxLines ELSE MaxLinesNoKey) /\ inflight < MaxInflight
  \/ s.nextLine = nextLine /\ s.inflight = inflight

\* The effects of the first render, in the order they are declared: the ref
\* copies, the initial seed (setLogs, fetchMoreLogs), the consumer loop.
Mount ==
  /\ ~mounted
  /\ mounted' = TRUE
  /\ LET s0 == [Entry EXCEPT !.logs = initialLogs]
         s1 == fetchMoreLogs(s0)
         s2 == processNextMessage(s1, isRunning)
     IN Set(drain(s2))
  /\ lastOp' = "mount"
  /\ UNCHANGED <<apiKey, isRunning, idleLines, raw, out>>

\* the timer t fires: processNextMessage runs in the closure that armed it,
\* whose isRunning is true (only such a closure passes the isRunning test and
\* arms a timer)
timerFires(t) == drain(processNextMessage([Entry EXCEPT !.timers = @ \ {t}], TRUE))

Tick ==
  /\ mounted
  /\ nextLogId <= MaxAppends
  /\ \E t \in timers : Budget(timerFires(t)) /\ Set(timerFires(t))
  /\ lastOp' = "tick"
  /\ UNCHANGED <<mounted, apiKey, isRunning, idleLines, raw, out>>

\* the service answers one suspended call
FetchComplete ==
  /\ mounted
  /\ apiKey
  /\ inflight > 0
  /\ nextLine <= MaxLines
  /\ \E o \in Outcomes :
       Set(fetchResume(Entry, generateStatusBatch(TRUE, o, FETCH_COUNT, nextLine)))
  /\ lastOp' = "complete"
  /\ idleLines' = IF isRunning THEN {} ELSE idleLines \cup Range(lastResult'.logs)
  /\ UNCHANGED <<mounted, apiKey, isRunning, raw, out>>

\* React commits the queued updates and runs the ref-copy effects
Render ==
  /\ mounted
  /\ <<logsRef, bufferRef, isLoadingRef>> # <<logs, buffer, isLoading>>
  /\ logsRef' = logs
  /\ bufferRef' = buffer
  /\ isLoadingRef' = isLoading
  /\ lastOp' = "render"
  /\ lastResult' = NoResult
  /\ UNCHANGED <<mounted, apiKey, logs, isRunning, buffer, isLoading, aiError,
                 useGeminiNext, timeoutRef, timers, inflight, nextLine, nextLogId,
                 srcHist, idleLines, raw, out>>

\* PAUSE: setIsRunning(false); the consumer effect is cleaned up and re-run
\* with isRunning false, which does nothing
Stop ==
  /\ mounted
  /\ isRunning
  /\ isRunning' = FALSE
  /\ Set(processNextMessage(cleanup(Entry), FALSE))
  /\ lastOp' = "stop"
  /\ idleLines' = {}
  /\ UNCHANGED <<mounted, apiKey, raw, out>>

\* RESUME: setIsRunning(true); the consumer effect is cleaned up and re-run
\* with isRunning true, which calls processNextMessage at once
resume == drain(processNextMessage(cleanup(Entry), TRUE))

Start ==
  /\ mounted
  /\ ~isRunning
  /\ nextLogId <= MaxAppends
  /\ Budget(resume)
  /\ isRunning' = TRUE
  /\ Set(resume)
  /\ lastOp' = "start"
  /\ idleLines' = {}
  /\ UNCHANGED <<mounted, apiKey, raw, out>>

Next == Mount \/ Tick \/ FetchComplete \/ Render \/ Stop \/ Start

Spec == Init /\ [][Next]_vars

\* The same steps under the scheduling the platform gives: an armed timer
\* fires, the service answers every call, React commits a queued update.
\* Nothing obliges the user to press the button.
SpecFair ==
  /\ Init
  /\ [][Next]_vars
  /\ WF_vars(Tick)
  /\ WF_vars(FetchComplete)
  /\ WF_vars(Render)

----------------------------------------------------------------------------
(* The log parser.  A string is the sequence of its characters.            *)

Upper ==
  <<"A", "B", "C", "D", "E", "F", "G", "H", "I", "J", "K", "L", "M",
    "N", "O", "P", "Q", "R", "S", "T", "U", "V", "W", "X", "Y", "Z">>

Lower ==
  <<"a", "b", "c", "d", "e", "f", "g", "h", "i", "j", "k", "l", "m",
    "n", "o", "p", "q", "r", "s", "t", "u", "v", "w", "x", "y", "z">>

Digit == {"0", "1", "2", "3", "4", "5", "6", "7", "8", "9"}

\* the character class [A-Z0-9_ ]
TagChar == Range(Upper) \cup Digit \cup {"_", " "}

\* the characters \s matches, of those the model's strings are made of
WhiteSpace == {" ", "\t", "\n", "\r"}

\* the characters . does not match
LineTerminator == {"\n", "\r"}

\* String.prototype.toLowerCase
toLowerCase(s) ==
  [i \in 1..Len(s) |->
     IF s[i] \in Range(Upper)
       THEN Lower[CHOOSE k \in 1..Len(Upper) : Upper[k] = s[i]]
       ELSE s[i]]

\* String.prototype.includes
includes(s, k) == \E i \in 0..(Len(s) - Len(k)) : SubSeq(s, i + 1, i + Len(k)) = k

\* the first position from i on whose character is not in class, Len(s) + 1
\* when there is none: where a greedy class* that starts at i stops
RECURSIVE skip(_, _, _)
skip(s, i, class) ==
  IF i <= Len(s) /\ s[i] \in class THEN skip(s, i + 1, class) ELSE i

\* raw.match(/^\[([A-Z0-9_ ]+)\]\s*(.*)/): the two groups, or null.  The
\* class does not hold "]", so the tag ends at the first character outside
\* the class; nothing follows (.*), so \s* and .* each take all they can.
match(s) ==
  LET close == skip(s, 2, TagChar)
      text == skip(s, close + 1, WhiteSpace)
      stop == skip(s, text, {s[i] : i \in 1..Len(s)} \ LineTerminator)
  IN IF Len(s) >= 1 /\ s[1] = "[" /\ close >= 3 /\ close <= Len(s) /\ s[close] = "]"
       THEN [null |-> FALSE, g1 |-> SubSeq(s, 2, close - 1), g2 |-> SubSeq(s, text, stop - 1)]
       ELSE [null |-> TRUE, g1 |-> <<>>, g2 |-> <<>>]

critical == <<"c", "r", "i", "t", "i", "c", "a", "l">>
fail == <<"f", "a", "i", "l">>
error == <<"e", "r", "r", "o", "r">>
warning == <<"w", "a", "r", "n", "i", "n", "g">>
detect == <<"d", "e", "t", "e", "c", "t">>

parseLogString(s) ==
  LET m == match(s)
      system == m.g1
      message == m.g2
      lc == toLowerCase(message)
      level ==
        IF includes(lc, critical) \/ includes(lc, fail) \/ includes(lc, error) THEN "CRIT"
        ELSE IF includes(lc, warning) \/ includes(lc, detect) THEN "WARN"
        ELSE IF system = <<"S", "Y", "S">> THEN "SYS"
        ELSE "INFO"
  IN IF ~m.null
       THEN [system |-> system, message |-> message, level |-> level]
       ELSE [system |-> <<"U", "N", "K">>, message |-> s, level |-> "INFO"]

----------------------------------------------------------------------------
(* The response text of the generative service, from response.text to the  *)
(* result generateStatusBatch returns for it.                              *)

\* String.prototype.indexOf and lastIndexOf of one character, counted from 0
indexOf(s, c) ==
  IF \E i \in 1..Len(s) : s[i] = c
    THEN (CHOOSE i \in 1..Len(s) : s[i] = c /\ \A j \in 1..(i - 1) : s[j] # c) - 1
    ELSE -1

lastIndexOf(s, c) ==
  IF \E i \in 1..Len(s) : s[i] = c
    THEN (CHOOSE i \in 1..Len(s) : s[i] = c /\ \A j \in (i + 1)..Len(s) : s[j] # c) - 1
    ELSE -1

\* String.prototype.substring(a, b) for 0 <= a, b <= length: the arguments
\* are swapped when a > b
substring(s, a, b) == IF a <= b THEN SubSeq(s, a + 1, b) ELSE SubSeq(s, b + 1, a)

\* the character U+0060 of a markdown fence, which a TLA+ string cannot hold
BACKTICK == "U+0060"

\* a JSON value: a string or an array of values
Str(cs) == [t |-> "str", s |-> cs, a |-> <<>>]
Arr(vs) == [t |-> "arr", s |-> <<>>, a |-> vs]

\* the white space of the JSON grammar
JsonSpace == {" ", "\t", "\n", "\r"}

\* the characters that end a run of plain characters inside a JSON string:
\* the quote, the escape and the control characters
StringStop == {"\"", "\\", "\t", "\n", "\r"}

SyntaxError == [ok |-> FALSE, val |-> Str(<<>>), next |-> 0]

\* JSON.parse on the texts of the model, which hold strings without escapes
\* and arrays, and no number, object or literal: the value that starts at
\* position i and the position after it, or a syntax error
RECURSIVE parseValue(_, _)
RECURSIVE parseElements(_, _, _)
parseValue(s, i) ==
  IF i > Len(s) THEN SyntaxError
  ELSE IF s[i] = "\"" THEN
    LET j == skip(s, i + 1, {s[k] : k \in 1..Len(s)} \ StringStop)
    IN IF j <= Len(s) /\ s[j] = "\""
         THEN [ok |-> TRUE, val |-> Str(SubSeq(s, i + 1, j - 1)), next |-> j + 1]
         ELSE SyntaxError
  ELSE IF s[i] = "[" THEN
    LET j == skip(s, i + 1, JsonSpace)
    IN IF j <= Len(s) /\ s[j] = "]"
         THEN [ok |-> TRUE, val |-> Arr(<<>>), next |-> j + 1]
         ELSE parseElements(s, j, <<>>)
  ELSE SyntaxError

\* the elements of an array from position i on, acc being those already read
parseElements(s, i, acc) ==
  LET v == parseValue(s, i)
      j == skip(s, v.next, JsonSpace)
  IN IF ~v.ok \/ j > Len(s) THEN SyntaxError
     ELSE IF s[j] = "]"
       THEN [ok |-> TRUE, val |-> Arr(Append(acc, v.val)), next |-> j + 1]
     ELSE IF s[j] = ","
       THEN parseElements(s, skip(s, j + 1, JsonSpace), Append(acc, v.val))
     ELSE SyntaxError

JSONparse(s) ==
  LET v == parseValue(s, skip(s, 1, JsonSpace))
  IN IF v.ok /\ skip(s, v.next, JsonSpace) > Len(s) THEN v ELSE SyntaxError

PARSE_WARNING ==
  <<"[", "W", "A", "R", "N", "]", " ", "D", "A", "T", "A", " ", "P", "A", "R", "S", "I", "N", "G", " ", "E", "R", "R", "O", "R", ".", " ", "R", "E", "C", "A", "L", "I", "B", "R", "A", "T", "I", "N", "G", ".", ".", ".">>

\* Mutant: the text is parsed as it came, without the slice.
parseResponseUnsliced(text) ==
  IF text = <<>> THEN [kind |-> "empty", logs |-> Arr(<<>>), error |-> FALSE]
  ELSE
    LET v == JSONparse(text)
    IN IF v.ok
         THEN [kind |-> "ok", logs |-> v.val, error |-> FALSE]
         ELSE [kind |-> "garbled", logs |-> Arr(<<Str(PARSE_WARNING)>>), error |-> TRUE]

\* generateStatusBatch from response.text on: the outcomes "empty", "ok" and
\* "garbled" of the adapter, with the lines as text
parseResponse(text) ==
  IF text = <<>> THEN [kind |-> "empty", logs |-> Arr(<<>>), error |-> FALSE]
  ELSE
    LET firstBracket == indexOf(text, "[")
        lastBracket == lastIndexOf(text, "]")
        jsonText == IF firstBracket # -1 /\ lastBracket # -1
                      THEN substring(text, firstBracket, lastBracket + 1)
                      ELSE text
        v == JSONparse(jsonText)
    IN IF v.ok
         THEN [kind |-> "ok", logs |-> v.val, error |-> FALSE]
         ELSE [kind |-> "garbled", logs |-> Arr(<<Str(PARSE_WARNING)>>), error |-> TRUE]

----------------------------------------------------------------------------
(* The raw lines the parser is applied to: a head, which carries a tag or  *)
(* fails to, followed by up to MaxWords words; and the lines of section 8  *)
(* of the specification.                                                   *)

Heads ==
  {<<"[", "N", "A", "V", "]">>,
   <<"[", "S", "Y", "S", "]">>,
   <<"[", "A", "_", "1", " ", "B", "]">>,
   <<"[", "]">>,
   <<"[", "n", "a", "v", "]">>,
   <<"N", "A", "V", "]">>,
   <<"[", "N", "A", "V">>,
   <<>>,
   <<" ", "[", "N", "A", "V", "]">>}

Words ==
  {<<" ">>,
   <<"\n">>,
   <<"C", "r", "i", "t", "i", "c", "a", "l">>,
   <<"F", "A", "I", "L">>,
   <<"e", "r", "r", "o", "r">>,
   <<"w", "a", "r", "n", "i", "n", "g">>,
   <<"D", "e", "t", "e", "c", "t">>,
   <<"o", "k">>,
   <<"]">>}

Examples ==
  {<<"[", "N", "A", "V", "]", " ", "W", "a", "y", "p", "o", "i", "n", "t", " ", "a", "c", "q", "u", "i", "r", "e", "d", ".">>,
   <<"[", "S", "Y", "S", "]", " ", "C", "r", "i", "t", "i", "c", "a", "l", " ", "f", "a", "i", "l", "u", "r", "e", " ", "d", "e", "t", "e", "c", "t", "e", "d", ".">>,
   <<"n", "o", " ", "b", "r", "a", "c", "k", "e", "t", "s", " ", "h", "e", "r", "e">>}

RECURSIVE Phrases(_)
Phrases(k) ==
  IF k = 0 THEN {<<>>}
  ELSE Phrases(k - 1) \cup {p \o w : p \in Phrases(k - 1), w \in Words}

RawLines == {h \o p : h \in Heads, p \in Phrases(MaxWords)} \cup Examples

(* The response texts: what comes before the array, the array or what    *)
(* stands in its place, what comes after it.                              *)

Preambles ==
  {<<>>,
   <<"S", "u", "r", "e", "!", " ">>,
   <<BACKTICK, BACKTICK, BACKTICK, "j", "s", "o", "n", "\n">>,
   <<"s", "e", "e", " ", "[", "x", "]", ":", " ">>,
   <<"[">>,
   <<"]", " ">>}

Postambles ==
  {<<>>,
   <<" ", "t", "h", "a", "n", "k", "s">>,
   <<"\n", BACKTICK, BACKTICK, BACKTICK>>,
   <<" ", "[", "y", "]">>,
   <<"]">>,
   <<" ", "[">>}

\* the texts of JSON arrays of strings, each with the strings it denotes
StringArrays ==
  {[text |-> <<"[", "]">>,
    strings |-> <<>>],
   [text |-> <<"[", "\"", "[", "N", "A", "V", "]", " ", "o", "k", "\"", "]">>,
    strings |-> <<<<"[", "N", "A", "V", "]", " ", "o", "k">>>>],
   [text |-> <<"[", "\"", "[", "N", "A", "V", "]", " ", "o", "k", "\"", ",", " ", "\"", "[", "E", "N", "G", "]", " ", "g", "o", "\"", "]">>,
    strings |-> <<<<"[", "N", "A", "V", "]", " ", "o", "k">>, <<"[", "E", "N", "G", "]", " ", "g", "o">>>>],
   [text |-> <<"[", " ", "\"", "o", "k", "\"", " ", ",", "\n", "\"", "g", "o", "\"", " ", "]">>,
    strings |-> <<<<"o", "k">>, <<"g", "o">>>>]}

\* texts that are no JSON array of strings
Malformed ==
  {<<"[", "\"", "o", "k", "\"", " ", "\"", "g", "o", "\"", "]">>,
   <<"[", "\"", "o", "k", "\"", ",", "]">>,
   <<"[", "\"", "o", "k">>,
   <<"o", "k">>,
   <<"\"", "o", "k", "\"">>,
   <<>>}

Responses ==
  {pre \o body \o post :
     pre \in Preambles,
     body \in {a.text : a \in StringArrays} \cup Malformed,
     post \in Postambles}

----------------------------------------------------------------------------
(* The text functions on their own: each is applied to every string.      *)

InitText ==
  /\ raw \in RawLines \cup Responses
  /\ out = NotApplied
  /\ mounted = FALSE
  /\ apiKey = TRUE
  /\ logs = <<>>
  /\ isRunning = TRUE
  /\ buffer = <<>>
  /\ isLoading = FALSE
  /\ aiError = FALSE
  /\ logsRef = <<>>
  /\ bufferRef = <<>>
  /\ isLoadingRef = FALSE
  /\ useGeminiNext = TRUE
  /\ timeoutRef = 0
  /\ timers = {}
  /\ inflight = 0
  /\ nextLine = 1
  /\ nextLogId = 1
  /\ srcHist = <<>>
  /\ lastOp = "init"
  /\ lastResult = NoResult
  /\ idleLines = {}

\* parseLogString(nextRaw)
ParseLine ==
  /\ out.op # "parse"
  /\ out' = [op |-> "parse", val |-> parseLogString(raw)]
  /\ UNCHANGED <<raw, appVars>>

\* the service has answered with the text raw
ReadResponse ==
  /\ out.op # "response"
  /\ out' = [op |-> "response", val |-> parseResponse(raw)]
  /\ UNCHANGED <<raw, appVars>>

NextText == ParseLine \/ ReadResponse

SpecText == InitText /\ [][NextText]_vars

----------------------------------------------------------------------------
(* Claims *)

\* the raw line of the newest entry of a display log
Newest(l) == l[Len(l)].raw

\* C1: at most one fetch cycle is in flight in every reachable state, also
\* when the empty-buffer fetch and the prefetch are requested in one tick and
\* when the fetch is requested at mount.
C1_AtMostOneFetchInFlight == inflight <= 1

\* C2: the display log never holds more than MAX_LOGS entries, and after
\* mount it changes exactly when a tick builds an entry: the entry is then
\* appended at the tail, exactly the oldest entry is dropped when the log was
\* full and nothing otherwise, and the survivors keep their order.
C2_BoundedFifoLog ==
  [][/\ Len(logs') <= MAX_LOGS
     /\ mounted => (logs' # logs <=> nextLogId' # nextLogId)
     /\ (mounted /\ nextLogId' # nextLogId) =>
          /\ logs'[Len(logs')].id = nextLogId
          /\ nextLogId \notin {logs[i].id : i \in 1..Len(logs)}
          /\ IF Len(logs) < MAX_LOGS
               THEN logs' = Append(logs, logs'[Len(logs')])
               ELSE logs' = Append(Tail(logs), logs'[Len(logs')])]_vars

\* C2 witness: a tick has appended to a full log whose three initial entries
\* and first appended entries have all been evicted.
C2_Witness == lastOp = "tick" /\ Len(logs) = MAX_LOGS /\ logs[1].id >= 2

\* C3: the pending buffer is FIFO end to end: the raw lines of the entries
\* ticks have appended to the display log are the first lines appended to the
\* pending buffer, in the order they were appended there, none skipped and
\* none repeated.
C3_FifoEndToEnd ==
  \A i \in 1..Len(logs) : logs[i].id >= 1 => logs[i].raw.id = logs[i].id

\* C4: no two consecutive fetch cycles use the same source.
C4_StrictAlternation == Len(srcHist) = 2 => srcHist[1] # srcHist[2]

\* C5: while the scheduler is not running no timer is pending, and no step
\* taken while it stays not running appends to the display log, starts a
\* fetch cycle or arms a timer.
C5_NoTickWhileIdle ==
  /\ [](mounted /\ ~isRunning => timers = {})
  /\ [][(mounted /\ ~isRunning /\ ~isRunning') =>
          /\ logs' = logs
          /\ srcHist' = srcHist
          /\ inflight' <= inflight
          /\ timers' = {}]_vars

\* C5 witness: stop has cancelled the timer while a call was outstanding, and
\* the call has completed since.
C5_Witness == ~isRunning /\ lastOp = "complete" /\ timers = {} /\ buffer # <<>>

C7_RateLimitFallback ==
  [][lastResult'.kind = "ratelimit" =>
       /\ Len(lastResult'.logs) = FETCH_COUNT
       /\ \A i \in 1..Len(lastResult'.logs) : lastResult'.logs[i].txt = "seed"
       /\ lastResult'.error
       /\ aiError'
       /\ buffer' = buffer \o lastResult'.logs
       /\ useGeminiNext' = ~useGeminiNext
       /\ isLoading' = FALSE
       /\ inflight' = inflight - 1
       /\ timers' = timers
       /\ (isRunning' => Cardinality(timers') = 1)]_vars

\* C7 witness: a rate-limited call has completed while the scheduler runs.
C7_Witness == lastResult.kind = "ratelimit" /\ isRunning /\ timers # {}

\* C8: every failing outcome of a live call comes back as a result with the
\* degraded flag and a list of lines - two diagnostic lines without
\* credential, one warning line on a parse failure, one interference line on
\* a failure that is no rate limit - which the cycle enqueues before it
\* releases the guard; the tick loop stays scheduled.
C8_FailuresAbsorbed ==
  LET r == lastResult
      k == Len(r.logs)
  IN r.kind \in {"nokey", "garbled", "ratelimit", "failure"} =>
       /\ r.error
       /\ aiError
       /\ ~isLoading
       /\ k >= 1
       /\ Len(buffer) >= k
       /\ SubSeq(buffer, Len(buffer) - k + 1, Len(buffer)) = r.logs
       /\ (r.kind = "nokey" => [i \in 1..k |-> r.logs[i].txt] = <<"keymissing", "fluxdisc">>)
       /\ (r.kind = "garbled" => [i \in 1..k |-> r.logs[i].txt] = <<"parsewarn">>)
       /\ (r.kind = "failure" => [i \in 1..k |-> r.logs[i].txt] = <<"interference">>)
       /\ (isRunning => Cardinality(timers) = 1)

\* C8 witness: a response that did not parse has been absorbed.
C8_Witness == lastResult.kind = "garbled" /\ isRunning

\* C9: stop does not abort an outstanding call; when the call completes
\* while the scheduler is not running its lines are appended to the pending
\* buffer, nothing is appended to the display log and no timer is armed; and
\* the start that follows finds them: each is then displayed or still pending.
C9_IdleCompletionKept ==
  [][/\ lastOp' = "stop" => inflight' = inflight
     /\ (~isRunning /\ lastOp' = "complete") =>
          /\ buffer' = buffer \o lastResult'.logs
          /\ logs' = logs
          /\ timers' = timers
     /\ (~isRunning /\ isRunning') =>
          \A l \in idleLines :
            l \in Range(buffer') \/ (logs' # logs /\ l = Newest(logs'))]_vars

\* C10: start runs a tick at once: a timer is armed, and if the pending
\* buffer is non-empty its head is appended to the display log, otherwise
\* nothing is appended and a fetch cycle is invoked (it starts unless the
\* guard read by fetchMoreLogs is set).
C10_StartTicksAtOnce ==
  [][(~isRunning /\ isRunning') =>
       /\ Cardinality(timers') = 1
       /\ IF buffer # <<>>
            THEN logs' = appendLog(logs, [id |-> nextLogId, raw |-> Head(buffer)])
            ELSE /\ logs' = logs
                 /\ isLoadingRef \/ srcHist' # srcHist \/ inflight' > inflight
                      \/ nextLine' > nextLine]_vars

\* the entry the reference of C11 gives for a raw string
ParseReference(s) ==
  LET Closes(j) == /\ s[1] = "["
                   /\ s[j] = "]"
                   /\ \A k \in 2..(j - 1) : s[k] \in TagChar
      tagged == \E j \in 3..Len(s) : Closes(j)
      close == CHOOSE j \in 3..Len(s) : Closes(j)
      LeadingSpace(m) == \A k \in (close + 1)..(m - 1) : s[k] \in WhiteSpace
      first == CHOOSE m \in (close + 1)..(Len(s) + 1) :
                 LeadingSpace(m) /\ (m <= Len(s) => s[m] \notin WhiteSpace)
      tag == SubSeq(s, 2, close - 1)
      message == SubSeq(s, first, Len(s))
      Has(k) == \E i \in 1..Len(message) :
                  /\ i + Len(k) - 1 <= Len(message)
                  /\ toLowerCase(SubSeq(message, i, i + Len(k) - 1)) = k
      level == IF Has(critical) \/ Has(fail) \/ Has(error) THEN "CRIT"
               ELSE IF Has(warning) \/ Has(detect) THEN "WARN"
               ELSE IF tag = <<"S", "Y", "S">> THEN "SYS"
               ELSE "INFO"
  IN IF tagged
       THEN [system |-> tag, message |-> message, level |-> level]
       ELSE [system |-> <<"U", "N", "K">>, message |-> s, level |-> "INFO"]

\* C11: parseLogString returns, for every raw string, the entry of the
\* reference: with a leading bracketed non-empty tag of uppercase letters,
\* digits, underscores and spaces, system is the tag, message all that
\* follows the tag and its optional white space, level CRIT, WARN, SYS or INFO
\* by the keywords in that order; without, UNK, INFO and the raw string.
C11_ParseMatchesReference ==
  out.op = "parse" => out.val = ParseReference(raw)

\* the result C12 states for the text of an array of strings
ArrayResult(a) ==
  [kind |-> "ok", logs |-> Arr([i \in 1..Len(a.strings) |-> Str(a.strings[i])]),
   error |-> FALSE]

\* C12 as stated: a response text that holds a JSON array of strings with
\* extra characters before or after it, or both, yields exactly the strings
\* of the array, in order, and no degraded flag.
C12_SanitizedArrayAnySurroundings ==
  \A pre \in Preambles, a \in StringArrays, post \in Postambles :
    (/\ out.op = "response"
     /\ raw = pre \o a.text \o post
     /\ pre \o post # <<>>) => out.val = ArrayResult(a)

\* C12, amended: a response text that holds a JSON array of strings with
\* extra characters before or after it, or both, where no "[" stands before
\* the array and no "]" after it, yields exactly the strings of the array, in
\* order, and no degraded flag.
C12_SanitizedArray ==
  \A pre \in Preambles, a \in StringArrays, post \in Postambles :
    (/\ out.op = "response"
     /\ raw = pre \o a.text \o post
     /\ pre \o post # <<>>
     /\ "[" \notin Range(pre)
     /\ "]" \notin Range(post)) => out.val = ArrayResult(a)

\* C12 witness: the response Sure! ["[NAV] ok", "[ENG] go"] thanks has been
\* read and its two lines returned.
C12_Witness ==
  /\ out.op = "response"
  /\ raw = <<"S", "u", "r", "e", "!", " ">>
             \o (CHOOSE a \in StringArrays : Len(a.strings) = 2 /\ a.strings[1] # <<"o", "k">>).text
             \o <<" ", "t", "h", "a", "n", "k", "s">>
  /\ out.val.kind = "ok"
  /\ Len(out.val.logs.a) = 2
  /\ out.val.logs.a[1].s = <<"[", "N", "A", "V", "]", " ", "o", "k">>

\* the lines a step has appended to the pending buffer: those numbered from
\* the step's first serial number on
Enqueued(before, after) == SelectSeq(after, LAMBDA l : l.id >= before)

\* the number of lines of a sequence that carry the given text
Count(lines, txt) == Cardinality({i \in 1..Len(lines) : lines[i].txt = txt})

\* C13: without a credential no call is ever outstanding and the service never
\* answers; every live cycle of a step gets the pair of diagnostic lines with
\* the degraded flag and enqueues both, in order; the indicator is set, the
\* alternation is toggled once per cycle, the guard is released, and while
\* the scheduler runs its next tick stays scheduled.
C13_NoCredentialNonFatal ==
  [][~apiKey =>
       LET new == Enqueued(nextLine, buffer')
           live == Count(new, "keymissing")
           seed == Count(new, "seed")
           r == lastResult'
       IN /\ inflight' = 0
          /\ lastOp' # "complete"
          /\ Len(new) = nextLine' - nextLine
          /\ \A i \in 1..Len(new) :
               /\ new[i].txt \in {"keymissing", "fluxdisc", "seed"}
               /\ new[i].txt = "keymissing" =>
                    i < Len(new) /\ new[i + 1] = Line(new[i].id + 1, "fluxdisc")
               /\ new[i].txt = "fluxdisc" => i > 1 /\ new[i - 1].txt = "keymissing"
          /\ r.kind \in {"none", "nokey"}
          /\ r.kind = "nokey" <=> live > 0
          /\ r.kind = "nokey" =>
               /\ r.error
               /\ [i \in 1..Len(r.logs) |-> r.logs[i].txt] = <<"keymissing", "fluxdisc">>
               /\ aiError'
          /\ r.kind = "none" => aiError' = aiError
          /\ useGeminiNext' = IF (live + seed) % 2 = 1 THEN ~useGeminiNext ELSE useGeminiNext
          /\ ~isLoading'
          /\ (mounted' /\ isRunning') => Cardinality(timers') = 1]_vars

\* C13 witness: without a credential a tick has run a live cycle, both
\* diagnostic lines are pending and the next tick is scheduled.
C13_Witness ==
  /\ ~apiKey
  /\ lastOp = "tick"
  /\ lastResult.kind = "nokey"
  /\ aiError
  /\ Len(buffer) >= 2
  /\ buffer[Len(buffer)].txt = "fluxdisc"
  /\ Cardinality(timers) = 1

\* C14: a tick that finds the pending buffer non-empty appends exactly one
\* entry, built from the head, to the display log and removes exactly the head
\* from the buffer (what the tick's own fetch cycles enqueue follows the
\* tail); a tick that finds it empty leaves the display log unchanged and
\* invokes the fetch cycle (which starts unless the guard it reads is set).
C14_TickDequeuesOne ==
  [][lastOp' = "tick" =>
       IF buffer # <<>>
         THEN /\ logs' = appendLog(logs, [id |-> nextLogId, raw |-> Head(buffer)])
              /\ buffer' = Tail(buffer) \o Enqueued(nextLine, buffer')
         ELSE /\ logs' = logs
              /\ isLoadingRef \/ srcHist' # srcHist \/ inflight' > inflight
                   \/ nextLine' > nextLine]_vars

\* C15: the AI-error indicator is false at first and changes only in a step
\* in which a live cycle completes; such a step leaves it at the degraded
\* flag of the call completed last.  Seed cycles, ticks that complete no live
\* cycle, stop and start leave it unchanged.
C15_IndicatorFollowsLiveCycles ==
  /\ ~aiError
  /\ [][/\ lastResult'.kind = "none" => aiError' = aiError
        /\ lastResult'.kind # "none" => aiError' = lastResult'.error]_vars

\* C15 witness: after a degraded live cycle a tick has run a seed cycle, and
\* the indicator is still set.
C15_Witness ==
  /\ lastOp = "tick"
  /\ lastResult.kind = "none"
  /\ srcHist = <<"live", "seed">>
  /\ buffer # <<>>
  /\ buffer[Len(buffer)].txt = "seed"
  /\ aiError

\* the serial numbers of the lines in the pending buffer, and of the lines
\* the entries of the display log were built from
Pending == {buffer[i].id : i \in 1..Len(buffer)}
Displayed == {logs[i].raw.id : i \in 1..Len(logs)}

\* C16: no enqueued line is lost: as long as the display log has evicted
\* nothing, every line a fetch cycle has enqueued is pending or displayed.
C16_NoLineLost ==
  Len(logs) < MAX_LOGS => \A n \in 1..(nextLine - 1) : n \in Pending \cup Displayed

\* C17: no enqueued line is displayed twice: no two entries of the display
\* log are built from the same line.
C17_NoLineTwice ==
  \A i, j \in 1..Len(logs) : logs[i].raw.id = logs[j].raw.id => i = j

\* C18: at most one tick timer is pending in every reachable state, and it is
\* the timer timeoutRef names, the one the cleanup clears.
C18_OneTickTimer ==
  /\ Cardinality(timers) <= 1
  /\ timers # {} => timers = {timeoutRef}

\* C18 witness: the scheduler has been stopped and started again after ticks
\* had run, and one timer is pending.
C18_Witness ==
  /\ lastOp = "start"
  /\ nextLogId > 2
  /\ timers = {timeoutRef}

\* the most lines one adapter batch holds: the diagnostic pair without a
\* credential, MaxBatch with one
BatchLimit == IF apiKey THEN MaxBatch ELSE 2

\* C19: the pending buffer never holds more than one line plus one batch, and
\* a fetch cycle starts only from a buffer of fewer than LOW_WATER lines with
\* no other cycle in flight.
C19_BufferBounded ==
  /\ [](Len(buffer) <= 1 + BatchLimit)
  /\ [][(inflight' > inflight \/ srcHist' # srcHist) =>
          Len(buffer) < LOW_WATER /\ inflight = 0]_vars

\* C20: the in-flight guard is released: every step that completes a fetch
\* cycle leaves the flag cleared, whatever the adapter returned; the flag is
\* never set while no cycle is outstanding; and a tick that runs while no
\* cycle is outstanding reads the guard as false.
C20_GuardReleased ==
  /\ [](inflight = 0 => ~isLoading)
  /\ [][/\ lastResult'.kind # "none" => ~isLoading'
        /\ (lastOp' = "tick" /\ inflight = 0) => ~isLoadingRef]_vars

\* the behaviour has not used up what the model lets it append and produce
BudgetLeft ==
  /\ nextLogId <= MaxAppends
  /\ nextLine <= (IF apiKey THEN MaxLines ELSE MaxLinesNoKey)

\* C21: the stream makes progress: a behaviour in which the scheduler stays
\* running from some point on keeps appending to the display log, so it uses
\* up every budget of appends and lines; it never settles in a loop that
\* appends nothing.
C21_StreamProgress ==
  <>[](mounted /\ isRunning) => <>(~BudgetLeft)

----------------------------------------------------------------------------
(* The long run.  SpecLog follows the schedules in which React commits     *)
(* every queued update before the next callback runs and the service       *)
(* answers every request with one line, far enough for the display log to  *)
(* fill and evict.                                                         *)

Synced == <<logsRef, bufferRef, isLoadingRef>> = <<logs, buffer, isLoading>>

InitLog == Init

TickLog ==
  /\ mounted
  /\ Synced
  /\ nextLogId <= LogAppends
  /\ \E t \in timers : Set(timerFires(t))
  /\ lastOp' = "tick"
  /\ UNCHANGED <<mounted, apiKey, isRunning, idleLines, raw, out>>

StartLog ==
  /\ mounted
  /\ Synced
  /\ ~isRunning
  /\ nextLogId <= LogAppends
  /\ isRunning' = TRUE
  /\ Set(resume)
  /\ lastOp' = "start"
  /\ idleLines' = {}
  /\ UNCHANGED <<mounted, apiKey, raw, out>>

FetchCompleteLog ==
  /\ mounted
  /\ apiKey
  /\ Synced
  /\ inflight > 0
  /\ Set(fetchResume(Entry, generateStatusBatch(TRUE, [kind |-> "ok", n |-> 1],
                                                FETCH_COUNT, nextLine)))
  /\ lastOp' = "complete"
  /\ idleLines' = IF isRunning THEN {} ELSE idleLines \cup Range(lastResult'.logs)
  /\ UNCHANGED <<mounted, apiKey, isRunning, raw, out>>

NextLog == Mount \/ TickLog \/ FetchCompleteLog \/ Render \/ Stop \/ StartLog

SpecLog == InitLog /\ [][NextLog]_vars

====
